---- MODULE Spec2Model ----
(***************************************************************************)
(* The stdin/stdout bridge of src/python/bridge.py as a state machine: one *)
(* process invocation reads one request, dispatches it to one action       *)
(* handler and writes response envelopes to standard output.               *)
(*                                                                         *)
(* Texts whose content matters are sequences: an error message is a        *)
(* sequence of text fragments (<<>> is the empty string), a link's url,    *)
(* title and the map search string are sequences of characters.            *)
(***************************************************************************)
EXTENDS Integers, Sequences, FiniteSets, TLC

VARIABLES
    pc,        \* position of main / of the running handler
    stdin,     \* the content of standard input
    searxng,   \* SEARXNG_URL, resolved once at import
    request,   \* the decoded request (main: request, action, params)
    exc,       \* the exception in flight, when pc = "except" or "crashed"
    outcome,   \* the handler's return value (main: data)
    stdout,    \* the envelopes printed so far
    sessions,  \* browser sessions currently held (AsyncWebCrawler contexts)
    acquired,  \* browser sessions acquired so far
    handler,   \* the handler main has called, "" before any call
    result,    \* the engine result of the last crawler.arun
    t1Calls,   \* GET requests sent to the self-hosted aggregator (tier 1)
    t2Calls,   \* attempts of the public provider (tier 2)
    t1Outcome, \* what tier 1 did: "" (not reached), "unconfigured", "import",
               \* "transport", "status", "decode", "normalize", "empty", "ok"
    t2Outcome, \* what tier 2 did: "" (not reached), "raise", "ok"
    results,   \* search_action: results
    stream,    \* crawl_action: the streamed sequence arun returned
    pulled,    \* crawl_action: elements pulled from the stream
    pages,     \* crawl_action: pages
    links,     \* map_action: links
    seenLinks  \* map_action: the internal links of the successful results pulled
               \* so far, in stream order (history)

vars == <<pc, stdin, searxng, request, exc, outcome, stdout, sessions, acquired,
          handler, result, t1Calls, t2Calls, t1Outcome, t2Outcome, results, stream,
          pulled, pages, links, seenLinks>>

(***************************************************************************)
(* Bounds of the model.                                                    *)
(***************************************************************************)
MaxLimit == 2
MaxItems == 2
MaxStream == 4
MaxPages == 3
MaxLinks == 4

(***************************************************************************)
(* JSON values as json.loads returns them, and Python's rendering of them. *)
(***************************************************************************)
JStr(s) == [t |-> "str", s |-> s]
JNull == [t |-> "null", s |-> ""]
JNum(s) == [t |-> "num", s |-> s]
JBool(s) == [t |-> "bool", s |-> s]
JObj == [t |-> "obj", s |-> "{...}"]
Absent == [t |-> "absent", s |-> ""]

FormatRepr(v) ==
    CASE v.t = "str" -> "'" \o v.s \o "'"
      [] v.t = "null" -> "None"
      [] v.t = "bool" -> (IF v.s = "true" THEN "True" ELSE "False")
      [] OTHER -> v.s

\* f"{v}" / str(v) of a decoded JSON value
Format(v) ==
    CASE v.t = "str" -> v.s
      [] v.t = "null" -> "None"
      [] v.t = "bool" -> (IF v.s = "true" THEN "True" ELSE "False")
      [] OTHER -> v.s

OptInt(n) == [has |-> TRUE, n |-> n]
NoInt == [has |-> FALSE, n |-> 0]

\* params.get(key, default) for an integer parameter
GetInt(p, default) == IF p.has THEN p.n ELSE default

\* params.get("format", "markdown")
GetFormat(p) == IF p.format.t = "absent" THEN JStr("markdown") ELSE p.format

KnownActions ==
    {"debug", "fetch", "search", "extract", "screenshot", "crawl", "map"}

RequiredUrlOnly(a) ==
    CASE a = "search" -> <<"query">>
      [] a \in {"fetch", "extract", "screenshot", "crawl", "map"} -> <<"url">>
      [] OTHER -> <<>>

\* The required parameters main subscripts, in evaluation order.
Required(a) ==
    CASE a = "fetch" -> <<"url">>
      [] a = "search" -> <<"query">>
      [] a = "extract" -> <<"url", "schema">>
      [] a = "screenshot" -> <<"url">>
      [] a = "crawl" -> <<"url">>
      [] a = "map" -> <<"url">>
      [] OTHER -> <<>>

(***************************************************************************)
(* Exceptions: [type, msg], msg being str(e).                              *)
(***************************************************************************)
Exc(type, msg) == [type |-> type, msg |-> msg]
NoExc == Exc("", <<>>)

ExceptionTypes ==
    {"JSONDecodeError", "AttributeError", "TypeError", "KeyError", "TimeoutError",
     "Exception"}

CatchesOnlyDecodeError(e) == e.type = "JSONDecodeError"

\* main's except clauses: JSONDecodeError, then Exception
Catches(e) == e.type \in ExceptionTypes

\* The error text main passes to respond for a caught exception.
ExceptText(e) ==
    IF e.type = "JSONDecodeError"
    THEN <<"Invalid JSON request: ">> \o e.msg
    ELSE e.msg

(***************************************************************************)
(* respond: the envelope printed for (success, data, error).               *)
(* data is [none, v] (none: the argument is None), error likewise [none, s]*)
(***************************************************************************)
Val(v) == [none |-> FALSE, v |-> v]
None == [none |-> TRUE, v |-> <<>>]
Err(s) == [none |-> FALSE, s |-> s]
NoErr == [none |-> TRUE, s |-> <<>>]

EnvelopeAlwaysBothKeys(success, data, error) ==
    [success |-> success, keys |-> {"success", "data", "error"},
     data |-> data.v, error |-> error.s]

Envelope(success, data, error) ==
    [success |-> success,
     keys |-> {"success"}
              \cup (IF ~data.none THEN {"data"} ELSE {})
              \cup (IF ~error.none /\ error.s # <<>> THEN {"error"} ELSE {}),
     data |-> data.v,
     error |-> error.s]

Respond(success, data, error) ==
    stdout' = Append(stdout, Envelope(success, data, error))

(***************************************************************************)
(* The requests standard input can hold.                                   *)
(***************************************************************************)
NoSearch == [has |-> FALSE, s |-> <<>>]
Search(s) == [has |-> TRUE, s |-> s]

\* params == {} : what request.get("params", {}) gives when params is absent
NoParams ==
    [kind |-> "dict", url |-> Absent, format |-> Absent, query |-> Absent,
     schema |-> Absent, limit |-> NoInt, max_pages |-> NoInt, search |-> NoSearch]

\* "params": null
NullParams == [NoParams EXCEPT !.kind = "null"]

FormatValues ==
    {Absent, JStr("markdown"), JStr("html"), JStr("raw"), JStr("pdf"),
     JNull, JNum("7")}

LimitValues == {NoInt} \cup {OptInt(n) : n \in -1..MaxLimit}

MaxPagesValues == {NoInt} \cup {OptInt(n) : n \in 0..MaxPages}

SearchValues ==
    {NoSearch, Search(<<>>), Search(<<"A">>), Search(<<"/", "B">>)}

UnknownActionValues ==
    {JStr("bogus"), JStr("Fetch"), JStr(""), JNull, JNum("7"), JBool("true")}

Url == JStr("https://example.com")

\* the params objects tried for action a; the optional parameters vary only
\* where the required ones are present
ParamsOf(a) ==
    CASE a = "fetch" ->
           {[NoParams EXCEPT !.url = Url, !.format = f] : f \in FormatValues}
      [] a = "search" ->
           {[NoParams EXCEPT !.query = JStr("q"), !.limit = l] : l \in LimitValues}
      [] a = "extract" ->
           {[NoParams EXCEPT !.url = u, !.schema = s] :
               u \in {Absent, Url}, s \in {Absent, JObj, JStr("h1")}}
      [] a = "screenshot" -> {[NoParams EXCEPT !.url = Url]}
      [] a = "crawl" ->
           {[NoParams EXCEPT !.url = Url, !.max_pages = m] : m \in MaxPagesValues}
      [] a = "map" ->
           {[NoParams EXCEPT !.url = Url, !.search = s, !.limit = l] :
               s \in SearchValues, l \in LimitValues}
      [] OTHER -> {NoParams}

Doc(isObject, action, params) ==
    [isObject |-> isObject, action |-> action, params |-> params]

\* a document that is no JSON object, e.g. [1]
ListDoc == Doc(FALSE, JNull, NoParams)

Docs ==
    {ListDoc}
    \cup {Doc(TRUE, JStr(a), p) : a \in {"debug"}, p \in {NoParams, NullParams}}
    \cup {Doc(TRUE, a, p) : a \in UnknownActionValues,
                            p \in {NoParams, NullParams,
                                   [NoParams EXCEPT !.url = Url]}}
    \cup UNION {{Doc(TRUE, JStr(a), p) :
                    p \in ParamsOf(a) \cup {NoParams, NullParams}} :
                   a \in KnownActions \ {"debug"}}

\* the documents tried with a non-standard literal in them: every action with
\* its optional parameters left out
PlainDocs ==
    {d \in Docs : /\ d.params.format = Absent
                  /\ d.params.limit = NoInt
                  /\ d.params.max_pages = NoInt
                  /\ d.params.search = NoSearch}

\* stdin.kind: "json" is a JSON text; "nonstd" is no JSON text but one Python's
\* json.loads accepts all the same (it holds a NaN, Infinity or -Infinity
\* literal, which the default parse_constant turns into a float), decoding to
\* doc; "garbage" is a text json.loads rejects.
Stdins ==
    {[kind |-> "garbage", doc |-> ListDoc]}
    \cup {[kind |-> "json", doc |-> d] : d \in Docs}
    \cup {[kind |-> "nonstd", doc |-> d] : d \in PlainDocs}

IsJson(in) == in.kind = "json"

\* json.loads(request_json): TRUE when it returns, FALSE when it raises
LoadsAccepts(in) == in.kind \in {"json", "nonstd"}

\* no engine result yet
NoResult == [success |-> FALSE]

Init ==
    /\ pc = "start"
    /\ stdin \in Stdins
    /\ searxng \in IF stdin.doc.action \in {JStr("search"), JStr("debug")}
                    THEN {"", "http://searx"}
                    ELSE {""}
    /\ request = ListDoc
    /\ exc = NoExc
    /\ outcome = None
    /\ stdout = <<>>
    /\ sessions = 0
    /\ acquired = 0
    /\ handler = ""
    /\ result = NoResult
    /\ t1Calls = 0
    /\ t2Calls = 0
    /\ t1Outcome = ""
    /\ t2Outcome = ""
    /\ results = <<>>
    /\ stream = <<>>
    /\ pulled = 0
    /\ pages = <<>>
    /\ links = <<>>
    /\ seenLinks = <<>>

(***************************************************************************)
(* main                                                                    *)
(***************************************************************************)
mainVars == <<stdin, searxng>>
searchVars == <<t1Calls, t2Calls, t1Outcome, t2Outcome, results>>
streamVars == <<stream, pulled, pages, links, seenLinks>>
handlerVars == <<result, searchVars, streamVars>>

\* An exception e leaves the try block of main.
Raise(e) ==
    /\ exc' = e
    /\ pc' = IF Catches(e) THEN "except" ELSE "crashed"

\* request = json.loads(sys.stdin.read())
MainDecode ==
    /\ pc = "start"
    /\ IF LoadsAccepts(stdin)
       THEN /\ request' = stdin.doc
            /\ pc' = "dispatch"
            /\ exc' = exc
       ELSE /\ Raise(Exc("JSONDecodeError", <<"Expecting value">>))
            /\ request' = request
    /\ UNCHANGED <<mainVars, outcome, stdout, sessions, acquired, handler, handlerVars>>

\* The first required parameter that params lacks, 0 when there is none.
FirstMissing(a, p) ==
    LET req == Required(a)
        miss == {i \in 1..Len(req) : p[req[i]].t = "absent"}
    IN IF miss = {} THEN 0 ELSE CHOOSE i \in miss : \A j \in miss : i <= j

\* action = request.get("action"); params = request.get("params", {});
\* the if/elif chain up to the call of the handler (its arguments evaluated),
\* or the else branch.
MainDispatch ==
    /\ pc = "dispatch"
    /\ LET action == request.action
           params == request.params
           known == action.t = "str" /\ action.s \in KnownActions
       IN IF ~request.isObject
          THEN /\ Raise(Exc("AttributeError",
                            <<"'list' object has no attribute 'get'">>))
               /\ UNCHANGED <<stdout, handler>>
          ELSE IF ~known
          THEN /\ Respond(FALSE, None,
                          Err(<<"Unknown action: ", Format(action)>>))
               /\ pc' = "done"
               /\ UNCHANGED <<exc, handler>>
          ELSE IF action.s = "debug"
          THEN /\ pc' = "debug"
               /\ handler' = "debug"
               /\ UNCHANGED <<exc, stdout>>
          ELSE IF params.kind = "null"
          THEN /\ Raise(Exc("TypeError",
                            <<"'NoneType' object is not subscriptable">>))
               /\ UNCHANGED <<stdout, handler>>
          ELSE IF FirstMissing(action.s, params) # 0
          THEN /\ Raise(Exc("KeyError",
                  <<"'", Required(action.s)[FirstMissing(action.s, params)], "'">>))
               /\ UNCHANGED <<stdout, handler>>
          ELSE /\ pc' = action.s
               /\ handler' = action.s
               /\ UNCHANGED <<exc, stdout>>
    /\ UNCHANGED <<mainVars, request, outcome, sessions, acquired, handlerVars>>

\* respond(True, data) after the handler returned
MainRespond ==
    /\ pc = "return"
    /\ Respond(TRUE, outcome, NoErr)
    /\ pc' = "done"
    /\ UNCHANGED <<mainVars, request, exc, outcome, sessions, acquired, handler,
                   handlerVars>>

\* except json.JSONDecodeError / except Exception: respond(False, error=...)
MainExcept ==
    /\ pc = "except"
    /\ Respond(FALSE, None, Err(ExceptText(exc)))
    /\ pc' = "done"
    /\ UNCHANGED <<mainVars, request, exc, outcome, sessions, acquired, handler,
                   handlerVars>>

\* The handler returns v to main.
Return(v) ==
    /\ outcome' = v
    /\ pc' = "return"
    /\ exc' = exc

\* The handler raises e into main.
HandlerRaise(e) ==
    /\ Raise(e)
    /\ outcome' = outcome

(***************************************************************************)
(* debug_action                                                            *)
(***************************************************************************)
DebugAction ==
    /\ pc = "debug"
    /\ Return(Val([crawl4ai_version |-> "version",
                   searxng_url |-> IF searxng # "" THEN searxng ELSE "not configured",
                   python_version |-> "python"]))
    /\ UNCHANGED <<mainVars, request, stdout, sessions, acquired, handler, handlerVars>>

(***************************************************************************)
(* The browser engine: async with AsyncWebCrawler(...) as crawler          *)
(***************************************************************************)
\* __aenter__: the browser starts and the session is held, or the launch fails
OpenCrawler(next) ==
    \/ /\ sessions' = sessions + 1
       /\ acquired' = acquired + 1
       /\ pc' = next
       /\ UNCHANGED <<exc, outcome>>
    \/ /\ HandlerRaise(Exc("Exception", <<"BrowserType.launch failed">>))
       /\ UNCHANGED <<sessions, acquired>>

CloseCrawlerSkipped == sessions' = sessions

\* __aexit__: runs however the block is left
CloseCrawler == sessions' = sessions - 1

\* result.error_message: None, "" or a text
ErrorMessages == {NoErr, Err(<<>>), Err(<<"net::ERR_NAME_NOT_RESOLVED">>)}

FalsyOnlyNone(x) == x.none

\* the truth test of an optional text x: None and "" are false
Falsy(x) == x.none \/ x.s = <<>>

\* x or default, for an optional text x
OrDefault(x, default) == IF x.none \/ x.s = <<>> THEN default ELSE x.s

\* result.markdown: an object with raw_markdown and fit_markdown, a plain
\* string, or None
Markdowns ==
    {[kind |-> "obj", raw_markdown |-> "# raw", fit_markdown |-> f, text |-> "# raw"] :
        f \in {"# fit", "# raw"}}
    \cup {[kind |-> "str", raw_markdown |-> "", fit_markdown |-> "", text |-> "# text"],
          [kind |-> "none", raw_markdown |-> "", fit_markdown |-> "", text |-> "None"]}

\* hasattr(markdown, "raw_markdown") ? markdown.raw_markdown : str(markdown)
MarkdownText(m) == IF m.kind = "obj" THEN m.raw_markdown ELSE m.text

\* an exception of crawler.arun itself (transport, timeout)
ArunError == Exc("Exception", <<"Page.goto: Timeout 30000ms exceeded">>)

\* the exceptions crawler.arun lets through: one with a message, and one
\* raised without arguments, whose str() is the empty string
ArunErrors == {ArunError, Exc("TimeoutError", <<>>)}

(***************************************************************************)
(* fetch_action                                                            *)
(***************************************************************************)
FetchResults ==
    {[success |-> FALSE, error_message |-> m, html |-> "", raw_html |-> "",
      markdown |-> [kind |-> "none", raw_markdown |-> "", fit_markdown |-> "",
                    text |-> "None"]] : m \in ErrorMessages}
    \cup {[success |-> TRUE, error_message |-> NoErr, html |-> h, raw_html |-> r,
           markdown |-> m] :
             h \in {"<p>clean</p>"}, r \in {"<p>raw</p>", "<p>clean</p>"},
             m \in Markdowns}

FetchSelectSwapped(format, r) ==
    IF format = JStr("html") THEN r.raw_html
    ELSE IF format = JStr("raw") THEN r.html
    ELSE MarkdownText(r.markdown)

\* the if/elif/else on format
FetchSelect(format, r) ==
    IF format = JStr("html") THEN r.html
    ELSE IF format = JStr("raw") THEN r.raw_html
    ELSE MarkdownText(r.markdown)

FetchEnter ==
    /\ pc = "fetch"
    /\ OpenCrawler("fetch_arun")
    /\ UNCHANGED <<mainVars, request, stdout, handler, handlerVars>>

FetchArun ==
    /\ pc = "fetch_arun"
    /\ CloseCrawler
    /\ \/ /\ \E e \in ArunErrors : HandlerRaise(e)
          /\ result' = result
       \/ \E r \in FetchResults :
            /\ result' = r
            /\ IF ~r.success
               THEN HandlerRaise(Exc("Exception",
                        OrDefault(r.error_message, <<"Failed to fetch URL">>)))
               ELSE Return(Val(FetchSelect(GetFormat(request.params), r)))
    /\ UNCHANGED <<mainVars, request, stdout, acquired, handler, searchVars,
                   streamVars>>

(***************************************************************************)
(* search_action                                                           *)
(***************************************************************************)
\* seq[:n]
PySliceTo(seq, n) ==
    LET len == Len(seq)
        m == IF n >= 0 THEN (IF n < len THEN n ELSE len)
             ELSE (IF len + n > 0 THEN len + n ELSE 0)
    IN SubSeq(seq, 1, m)

\* An entry of a backend's result array: a mapping with some of its keys, or
\* (isDict = FALSE) something that has no .get.
Item(isDict, keys, a, b, c) ==
    [isDict |-> isDict, keys |-> keys, link |-> a, title |-> b, text |-> c]

\* tier 1 entries: keys url, title, content
T1Items ==
    {Item(TRUE, {"url", "title", "content"}, "https://a.example", "A", "about a"),
     Item(TRUE, {"url"}, "https://b.example", "", ""),
     Item(FALSE, {}, "", "", "")}

\* tier 2 entries: keys href, title, body
T2Items ==
    {Item(TRUE, {"href", "title", "body"}, "https://c.example", "C", "about c"),
     Item(TRUE, {"title"}, "", "D", ""),
     Item(FALSE, {}, "", "", "")}

SeqsUpTo(S, n) == UNION {[1..k -> S] : k \in 0..n}

\* item.get(key, "")
ItemGet(item, key, value) == IF key \in item.keys THEN value ELSE ""

SearchResult(item, urlKey, titleKey, snippetKey) ==
    [url |-> ItemGet(item, urlKey, item.link),
     title |-> ItemGet(item, titleKey, item.title),
     snippet |-> ItemGet(item, snippetKey, item.text)]

\* The index of the first entry without .get, Len + 1 when there is none.
FirstBad(items) ==
    LET bad == {i \in 1..Len(items) : ~items[i].isDict}
    IN IF bad = {} THEN Len(items) + 1
       ELSE CHOOSE i \in bad : \A j \in bad : i <= j

\* The results the normalising loop appends before it ends or raises.
Normalized(items, urlKey, titleKey, snippetKey) ==
    [i \in 1..(FirstBad(items) - 1) |->
        SearchResult(items[i], urlKey, titleKey, snippetKey)]

AllFailedMessage ==
    <<"All ", "search backends", " failed. ", "Configure SEARXNG_URL",
      " or ensure ddgs is available.">>

Tier1Aborts(how, rs) ==
    /\ t1Outcome' = how
    /\ results' = rs
    /\ IF how = "unconfigured"
       THEN pc' = "search_t2" /\ UNCHANGED <<exc, outcome>>
       ELSE HandlerRaise(Exc("Exception", <<"SearXNG search failed">>))

\* Tier 1 did not return: control reaches the ddgs attempt.
Tier1FallsThrough(how, rs) ==
    /\ t1Outcome' = how
    /\ results' = rs
    /\ pc' = "search_t2"
    /\ UNCHANGED <<exc, outcome>>

Tier1NeverReturns(rs) == Tier1FallsThrough("ok", rs)

\* if results: return results
Tier1ReturnsIfAny(rs) ==
    IF rs # <<>>
    THEN /\ t1Outcome' = "ok"
         /\ results' = rs
         /\ Return(Val(rs))
    ELSE Tier1FallsThrough("empty", rs)

\* lines 104-132: results = []; the SearXNG attempt when SEARXNG_URL is set
SearchTier1 ==
    /\ pc = "search"
    /\ LET limit == GetInt(request.params.limit, 10)
       IN IF searxng = ""
          THEN /\ Tier1FallsThrough("unconfigured", <<>>)
               /\ t1Calls' = t1Calls
          ELSE \/ \* import httpx fails: nothing is sent
                  /\ Tier1FallsThrough("import", <<>>)
                  /\ t1Calls' = t1Calls
               \/ \* the GET raises (transport error, timeout), answers with a
                  \* status other than 200, or response.json() raises
                  /\ \E how \in {"transport", "status", "decode"} :
                        Tier1FallsThrough(how, <<>>)
                  /\ t1Calls' = t1Calls + 1
               \/ \* 200 and a decoded body
                  \E items \in SeqsUpTo(T1Items, MaxItems) :
                    LET taken == PySliceTo(items, limit)
                        rs == Normalized(taken, "url", "title", "content")
                    IN /\ t1Calls' = t1Calls + 1
                       /\ IF FirstBad(taken) <= Len(taken)
                          THEN Tier1FallsThrough("normalize", rs)
                          ELSE Tier1ReturnsIfAny(rs)
    /\ UNCHANGED <<mainVars, request, stdout, sessions, acquired, handler, result,
                   t2Calls, t2Outcome, streamVars>>

Tier2Propagates(e) == HandlerRaise(e)

\* except Exception: log_error; then raise Exception("All search backends failed...")
Tier2Fails(e) == HandlerRaise(Exc("Exception", AllFailedMessage))

Tier2Error == Exc("Exception", <<"ddgs: ", "202 Ratelimit">>)

\* lines 135-157: the ddgs attempt
SearchTier2 ==
    /\ pc = "search_t2"
    /\ t2Calls' = t2Calls + 1
    /\ \/ \* the import, DDGS() or ddgs.text raises
          /\ results' = results
          /\ t2Outcome' = "raise"
          /\ Tier2Fails(Tier2Error)
       \/ \E items \in SeqsUpTo(T2Items, MaxItems) :
            LET rs == results \o Normalized(items, "href", "title", "body")
            IN /\ results' = rs
               /\ IF FirstBad(items) <= Len(items)
                  THEN /\ t2Outcome' = "raise"
                       /\ Tier2Fails(Exc("AttributeError",
                              <<"'str' object has no attribute 'get'">>))
                  ELSE /\ t2Outcome' = "ok"
                       /\ Return(Val(rs))
    /\ UNCHANGED <<mainVars, request, stdout, sessions, acquired, handler, result,
                   t1Calls, t1Outcome, streamVars>>

(***************************************************************************)
(* extract_action                                                          *)
(***************************************************************************)
\* result.extracted_content: None, "", a JSON text, or a text json.loads rejects
ExtractedContents ==
    {NoErr, Err(<<>>), Err(<<"[{\"title\": \"T\"}]">>), Err(<<"<html>">>)}

ExtractResults ==
    {[success |-> FALSE, error_message |-> m, extracted_content |-> NoErr] :
        m \in ErrorMessages}
    \cup {[success |-> TRUE, error_message |-> NoErr, extracted_content |-> c] :
             c \in ExtractedContents}

\* the empty mapping {}
EmptyMapping == [json |-> <<"{}">>]

\* json.loads(text) of the engine's extracted content
Decoded(text) == [json |-> text]

ExtractEnter ==
    /\ pc = "extract"
    /\ IF request.params.schema.t # "obj"
       THEN \* schema.items() on something that is no mapping
            /\ HandlerRaise(Exc("AttributeError",
                   <<"'str' object has no attribute 'items'">>))
            /\ UNCHANGED <<sessions, acquired>>
       ELSE OpenCrawler("extract_arun")
    /\ UNCHANGED <<mainVars, request, stdout, handler, handlerVars>>

ExtractArun ==
    /\ pc = "extract_arun"
    /\ CloseCrawler
    /\ \/ /\ \E e \in ArunErrors : HandlerRaise(e)
          /\ result' = result
       \/ \E r \in ExtractResults :
            /\ result' = r
            /\ IF ~r.success
               THEN HandlerRaise(Exc("Exception",
                        OrDefault(r.error_message, <<"Failed to extract">>)))
               ELSE IF Falsy(r.extracted_content)
               THEN Return(Val(EmptyMapping))
               ELSE IF r.extracted_content.s = <<"<html>">>
               THEN HandlerRaise(Exc("JSONDecodeError", <<"Expecting value">>))
               ELSE Return(Val(Decoded(r.extracted_content.s)))
    /\ UNCHANGED <<mainVars, request, stdout, acquired, handler, searchVars,
                   streamVars>>

(***************************************************************************)
(* screenshot_action                                                       *)
(***************************************************************************)
\* result.screenshot: None, "" or base64 text
Screenshots == {NoErr, Err(<<>>), Err(<<"iVBORw0KGgo=">>)}

ScreenshotResults ==
    {[success |-> FALSE, error_message |-> m, screenshot |-> NoErr] :
        m \in ErrorMessages}
    \cup {[success |-> TRUE, error_message |-> NoErr, screenshot |-> c] :
             c \in Screenshots}

ScreenshotEnter ==
    /\ pc = "screenshot"
    /\ OpenCrawler("screenshot_arun")
    /\ UNCHANGED <<mainVars, request, stdout, handler, handlerVars>>

ScreenshotArun ==
    /\ pc = "screenshot_arun"
    /\ CloseCrawler
    /\ \/ /\ \E e \in ArunErrors : HandlerRaise(e)
          /\ result' = result
       \/ \E r \in ScreenshotResults :
            /\ result' = r
            /\ IF ~r.success
               THEN HandlerRaise(Exc("Exception",
                        OrDefault(r.error_message, <<"Failed to take screenshot">>)))
               ELSE IF Falsy(r.screenshot)
               THEN HandlerRaise(Exc("Exception", <<"No screenshot captured">>))
               ELSE Return(Val(<<"data:image/png;base64,">> \o r.screenshot.s))
    /\ UNCHANGED <<mainVars, request, stdout, acquired, handler, searchVars,
                   streamVars>>

(***************************************************************************)
(* crawl_action                                                            *)
(***************************************************************************)
\* What the streamed sequence yields at one position: a rendered page whose
\* markdown is an object ("ok") or a plain string ("okstr"), a page the
\* engine reports as failed, or an exception raised by the iteration, which
\* ends the sequence.
StreamKinds == {"ok", "okstr", "failed", "raise"}

CrawlStreams ==
    {s \in SeqsUpTo(StreamKinds, MaxStream) :
        \A i \in 1..Len(s) : s[i] = "raise" => i = Len(s)}

\* the result the stream s yields at position i; its url is its position
CrawlResultAt(s, i) ==
    [success |-> s[i] \in {"ok", "okstr"},
     url |-> i,
     markdown |-> IF s[i] = "ok"
                  THEN [kind |-> "obj", raw_markdown |-> "# raw",
                        fit_markdown |-> "# fit", text |-> "# raw"]
                  ELSE [kind |-> "str", raw_markdown |-> "", fit_markdown |-> "",
                        text |-> "# text"]]

CrawlPage(r) == [url |-> r.url, markdown |-> MarkdownText(r.markdown)]

CeilingOffByOne(n, max_pages) == n > max_pages

RenderedAlways(r) == TRUE

\* if result.success: the results that become pages
Rendered(r) == r.success

\* if len(pages) >= max_pages: break
CeilingReached(n, max_pages) == n >= max_pages

CrawlEnter ==
    /\ pc = "crawl"
    /\ pages' = <<>>
    /\ OpenCrawler("crawl_arun")
    /\ UNCHANGED <<mainVars, request, stdout, handler, result, searchVars, stream,
                   pulled, links, seenLinks>>

\* await crawler.arun(url=url, config=run_config): the streamed sequence
CrawlArun ==
    /\ pc = "crawl_arun"
    /\ \/ /\ CloseCrawler
          /\ \E e \in ArunErrors : HandlerRaise(e)
          /\ UNCHANGED <<stream, pulled>>
       \/ /\ stream' \in CrawlStreams
          /\ pulled' = 0
          /\ pc' = "crawl_loop"
          /\ UNCHANGED <<sessions, exc, outcome>>
    /\ UNCHANGED <<mainVars, request, stdout, acquired, handler, result, searchVars,
                   pages, links, seenLinks>>

\* one turn of the async for: pull the next result, or find the stream ended
CrawlNext ==
    /\ pc = "crawl_loop"
    /\ LET max_pages == GetInt(request.params.max_pages, 10)
       IN IF pulled = Len(stream)
          THEN /\ CloseCrawler
               /\ Return(Val(pages))
               /\ UNCHANGED <<pulled, pages, result>>
          ELSE LET r == CrawlResultAt(stream, pulled + 1)
               IN /\ pulled' = pulled + 1
                  /\ IF stream[pulled + 1] = "raise"
                     THEN /\ CloseCrawler
                          /\ \E e \in ArunErrors : HandlerRaise(e)
                          /\ UNCHANGED <<pages, result>>
                     ELSE /\ result' = r
                          /\ IF Rendered(r)
                             THEN /\ pages' = Append(pages, CrawlPage(r))
                                  /\ IF CeilingReached(Len(pages'), max_pages)
                                     THEN /\ CloseCrawler
                                          /\ Return(Val(pages'))
                                     ELSE UNCHANGED <<pc, sessions, exc, outcome>>
                             ELSE UNCHANGED <<pc, sessions, exc, outcome, pages>>
    /\ UNCHANGED <<mainVars, request, stdout, acquired, handler, searchVars, stream,
                   links, seenLinks>>

(***************************************************************************)
(* map_action                                                              *)
(***************************************************************************)
\* An internal link: a mapping with href and text, or a bare string.
DictLink(href, text) == [isDict |-> TRUE, str |-> <<>>, href |-> href, text |-> text]
BareLink(str) == [isDict |-> FALSE, str |-> str, href |-> <<>>, text |-> <<>>]

LinkPool ==
    {DictLink(<<"/", "a">>, <<"A">>),
     DictLink(<<"/", "b">>, <<"B">>),
     DictLink(<<"/", "c">>, <<"C">>),
     DictLink(<<>>, <<"X">>),
     BareLink(<<"/", "a">>)}

\* a page result of the map stream: its success flag and its internal links
MapResults(n) ==
    {[success |-> ok, links |-> ls] : ok \in BOOLEAN, ls \in SeqsUpTo(LinkPool, n)}

\* entry = {"url": ..., "title": ...}
MapEntry(link) ==
    [url |-> IF link.isDict THEN link.href ELSE link.str,
     title |-> IF link.isDict THEN link.text ELSE <<>>]

Range(seq) == {seq[i] : i \in 1..Len(seq)}

AppendsByUrl(entry, acc) ==
    entry.url # <<>> /\ \A i \in 1..Len(acc) : acc[i].url # entry.url

\* if entry["url"] and entry not in links
Appends(entry, acc) == entry.url # <<>> /\ entry \notin Range(acc)

\* the for loop over one result's internal links
RECURSIVE Collect(_, _)
Collect(acc, ls) ==
    IF ls = <<>> THEN acc
    ELSE LET entry == MapEntry(Head(ls))
         IN Collect(IF Appends(entry, acc) THEN Append(acc, entry) ELSE acc,
                    Tail(ls))

\* if result.success and hasattr(result, "links") and result.links
Takes(r) == r.success /\ r.links # <<>>

LowerChar(c) ==
    CASE c = "A" -> "a"
      [] c = "B" -> "b"
      [] c = "C" -> "c"
      [] c = "X" -> "x"
      [] OTHER -> c

\* str.lower()
Lower(str) == [i \in 1..Len(str) |-> LowerChar(str[i])]

\* sub in str
Contains(sub, str) ==
    \E i \in 0..(Len(str) - Len(sub)) :
        \A j \in 1..Len(sub) : str[i + j] = sub[j]

\* the condition of the list comprehension
Matches(search, lnk) ==
    \/ Contains(Lower(search), Lower(lnk.url))
    \/ Contains(Lower(search), Lower(lnk.title))

\* lines 336-344: if search and links: links = [lnk for lnk in links if ...]
Filtered(search, ls) ==
    IF search.has /\ search.s # <<>> /\ ls # <<>>
    THEN LET keep(lnk) == Matches(search.s, lnk) IN SelectSeq(ls, keep)
    ELSE ls

TruncateThenFilter(search, limit, ls) == Filtered(search, PySliceTo(ls, limit))

\* lines 336-346: the filter, then return links[:limit]
MapOutput(search, limit, ls) == PySliceTo(Filtered(search, ls), limit)

MapEnter ==
    /\ pc = "map"
    /\ links' = <<>>
    /\ seenLinks' = <<>>
    /\ OpenCrawler("map_arun")
    /\ UNCHANGED <<mainVars, request, stdout, handler, result, searchVars, stream,
                   pulled, pages>>

\* await crawler.arun(url=url, config=run_config): the streamed sequence
MapArun ==
    /\ pc = "map_arun"
    /\ \/ /\ CloseCrawler
          /\ \E e \in ArunErrors : HandlerRaise(e)
       \/ /\ pc' = "map_loop"
          /\ UNCHANGED <<sessions, exc, outcome>>
    /\ UNCHANGED <<mainVars, request, stdout, acquired, handler, result, searchVars,
                   streamVars>>

\* one turn of the async for: the stream yields a result, raises, or has ended
MapNext ==
    /\ pc = "map_loop"
    /\ \/ /\ \E r \in MapResults(MaxLinks - Len(seenLinks)) :
                /\ seenLinks' = IF r.success THEN seenLinks \o r.links ELSE seenLinks
                /\ links' = IF Takes(r) THEN Collect(links, r.links) ELSE links
          /\ UNCHANGED <<pc, sessions, exc, outcome>>
       \/ /\ CloseCrawler
          /\ \E e \in ArunErrors : HandlerRaise(e)
          /\ UNCHANGED <<links, seenLinks>>
       \/ /\ CloseCrawler
          /\ Return(Val(MapOutput(request.params.search,
                                  GetInt(request.params.limit, 100), links)))
          /\ UNCHANGED <<links, seenLinks>>
    /\ UNCHANGED <<mainVars, request, stdout, acquired, handler, result, searchVars,
                   stream, pulled, pages>>

(***************************************************************************)
(* The process.                                                            *)
(***************************************************************************)
Next ==
    \/ MainDecode
    \/ MainDispatch
    \/ MainRespond
    \/ MainExcept
    \/ DebugAction
    \/ FetchEnter
    \/ FetchArun
    \/ SearchTier1
    \/ SearchTier2
    \/ ExtractEnter
    \/ ExtractArun
    \/ ScreenshotEnter
    \/ ScreenshotArun
    \/ CrawlEnter
    \/ CrawlArun
    \/ CrawlNext
    \/ MapEnter
    \/ MapArun
    \/ MapNext

Spec == Init /\ [][Next]_vars

(***************************************************************************)
(* Properties.                                                             *)
(***************************************************************************)
Terminated == pc = "done"

\* the handler has finished: main holds its result or its exception
Finished == pc \in {"return", "except", "done"}

NoBackendTouched == acquired = 0 /\ sessions = 0 /\ t1Calls = 0 /\ t2Calls = 0

\* C1: every invocation writes exactly one response envelope: never two, and
\* the process never stops without one; a handler that failed ends in one
\* error envelope, a handler that returned in one success envelope.
C1_ExactlyOneEnvelope ==
    /\ Len(stdout) <= 1
    /\ Terminated <=> Len(stdout) = 1
    /\ ~Terminated => ENABLED Next
    /\ Terminated /\ handler # "" /\ exc # NoExc =>
          stdout[1].success = FALSE
    /\ Terminated /\ handler # "" /\ exc = NoExc =>
          stdout[1].success = TRUE /\ "error" \notin stdout[1].keys

C1_Witness ==
    /\ Terminated
    /\ handler = "fetch"
    /\ exc.type = "Exception"
    /\ Len(stdout) = 1
    /\ stdout[1].success = FALSE

\* C2: whenever standard input holds no JSON text, the response is an error
\* envelope with an error field and no handler ran and no backend was touched.
C2_InvalidJsonIsRejected ==
    Terminated /\ ~IsJson(stdin) =>
        /\ stdout[1].success = FALSE
        /\ "error" \in stdout[1].keys
        /\ handler = ""
        /\ NoBackendTouched

\* C3: a request that decodes to an object whose action is none of the seven
\* known names ends in the error envelope "Unknown action: <action>", and no
\* handler ran and no backend was touched.
C3_UnknownAction ==
    LET a == stdin.doc.action
        text == IF a.t = "str" THEN a.s
                ELSE IF a.t = "null" THEN "None"
                ELSE IF a.t = "bool" THEN "True"
                ELSE "7"
    IN Terminated /\ LoadsAccepts(stdin) /\ stdin.doc.isObject
          /\ ~(a.t = "str" /\ a.s \in KnownActions) =>
            /\ stdout = <<[success |-> FALSE, keys |-> {"success", "error"},
                           data |-> <<>>, error |-> <<"Unknown action: ", text>>]>>
            /\ handler = ""
            /\ NoBackendTouched

C3_Witness ==
    /\ Terminated
    /\ stdin.doc.isObject
    /\ stdin.doc.action = JStr("Fetch")
    /\ stdin.doc.params.url = Url
    /\ stdout[1].error = <<"Unknown action: ", "Fetch">>

\* the ways tier 1 can fail once it is configured
Tier1Failures == {"import", "transport", "status", "decode", "normalize", "empty"}

\* C4: once tier 1 has answered 200 with a non-empty normalized result set,
\* tier 2 is never invoked; with tier 1 unconfigured, tier 1 is never
\* contacted and tier 2 has been invoked exactly once when the handler ends.
C4_TierOrder ==
    handler = "search" =>
        /\ t1Outcome = "ok" =>
              /\ searxng # ""
              /\ t2Calls = 0
              /\ t2Outcome = ""
              /\ Finished => results # <<>> /\ exc = NoExc
        /\ searxng = "" =>
              /\ t1Calls = 0
              /\ t2Calls <= 1
              /\ Finished => t2Calls = 1

C4_Witness ==
    /\ Terminated
    /\ handler = "search"
    /\ t1Outcome = "ok"
    /\ t1Calls = 1
    /\ t2Calls = 0
    /\ Len(stdout[1].data) = 2
    /\ stdout[1].success = TRUE

\* C5: however tier 1 fails once it is configured, the call goes on to tier 2
\* without an exception, tier 2 is invoked exactly once, and a tier 2 that
\* does not raise ends the invocation in a success envelope.
C5_Tier1FailureIsolated ==
    handler = "search" /\ searxng # "" /\ t1Outcome \in Tier1Failures =>
        /\ pc \in {"search_t2", "return", "except", "done"}
        /\ pc = "search_t2" => exc = NoExc /\ t2Calls = 0
        /\ Finished => t2Calls = 1
        /\ Finished /\ t2Outcome = "ok" => exc = NoExc
        /\ Terminated /\ t2Outcome = "ok" =>
              /\ Len(stdout) = 1
              /\ stdout[1].success = TRUE
              /\ stdout[1].keys = {"success", "data"}
        /\ Terminated /\ stdout[1].success = FALSE => t2Outcome = "raise"

C5_Witness ==
    /\ Terminated
    /\ handler = "search"
    /\ searxng # ""
    /\ t1Outcome = "transport"
    /\ t1Calls = 1
    /\ t2Calls = 1
    /\ t2Outcome = "ok"
    /\ stdout[1].success = TRUE

\* some fragment of the message is the text
HasFragment(msg, text) == \E i \in 1..Len(msg) : msg[i] = text

\* C6: when tier 1 gave no result and tier 2 raised, the response is an
\* error envelope whose message is the fixed one: it names the search
\* backends and hints at SEARXNG_URL, and it is not tier 2's own message.
C6_AllBackendsFailed ==
    Terminated /\ handler = "search" /\ t2Outcome = "raise"
       /\ t1Outcome \in Tier1Failures \cup {"unconfigured"} =>
        /\ Len(stdout) = 1
        /\ stdout[1].success = FALSE
        /\ stdout[1].keys = {"success", "error"}
        /\ HasFragment(stdout[1].error, "search backends")
        /\ HasFragment(stdout[1].error, "Configure SEARXNG_URL")
        /\ ~HasFragment(stdout[1].error, "202 Ratelimit")
        /\ ~HasFragment(stdout[1].error, "'str' object has no attribute 'get'")

C6_Witness ==
    /\ Terminated
    /\ handler = "search"
    /\ t1Outcome = "empty"
    /\ t2Outcome = "raise"
    /\ stdout[1].success = FALSE
    /\ HasFragment(stdout[1].error, "search backends")

\* the positions of the stream at which a page was rendered successfully
Successes == {i \in 1..Len(stream) : stream[i] \in {"ok", "okstr"}}

\* the position of the n-th successful page, the stream's length when it has
\* fewer than n
NthSuccess(n) ==
    LET at == {i \in Successes : Cardinality({j \in Successes : j <= i}) = n}
    IN IF at = {} THEN Len(stream) ELSE CHOOSE i \in at : TRUE

Min(a, b) == IF a <= b THEN a ELSE b

\* C7: for max_pages = N >= 1 and a stream of page results with M successful
\* pages, crawl_action returns exactly min(N, M) pages, and nothing is pulled
\* from the stream after the N-th successful page.
C7_CrawlCeiling ==
    LET N == GetInt(request.params.max_pages, 10)
        M == Cardinality(Successes)
    IN handler = "crawl" /\ N >= 1
          /\ (\A i \in 1..Len(stream) : stream[i] # "raise") =>
            /\ pulled <= NthSuccess(N)
            /\ Len(pages) <= Min(N, M)
            /\ exc # NoExc => pulled = 0 /\ stream = <<>>
            /\ pc \in {"return", "done"} =>
                  /\ Len(outcome.v) = Min(N, M)
                  /\ pulled = NthSuccess(N)
            /\ Terminated /\ exc = NoExc =>
                  /\ stdout[1].success = TRUE
                  /\ Len(stdout[1].data) = Min(N, M)

C7_Witness ==
    /\ Terminated
    /\ handler = "crawl"
    /\ request.params.max_pages = OptInt(3)
    /\ stream = <<"ok", "ok", "ok", "ok">>
    /\ pulled = 3
    /\ Len(stdout[1].data) = 3

\* the entry a link normalizes to, as C8 states it
EntryOf(link) ==
    IF link.isDict
    THEN [url |-> link.href, title |-> link.text]
    ELSE [url |-> link.str, title |-> <<>>]

\* The positions of seenLinks kept by first-occurrence deduplication: the
\* entry's url is not empty and no earlier link normalizes to the same entry.
KeptPositions ==
    {i \in 1..Len(seenLinks) :
        /\ EntryOf(seenLinks[i]).url # <<>>
        /\ \A j \in 1..(i - 1) : EntryOf(seenLinks[j]) # EntryOf(seenLinks[i])}

\* the entries at the positions P of seenLinks, in increasing position
RECURSIVE EntriesAt(_)
EntriesAt(P) ==
    IF P = {} THEN <<>>
    ELSE LET m == CHOOSE i \in P : \A j \in P : i <= j
         IN <<EntryOf(seenLinks[m])>> \o EntriesAt(P \ {m})

\* C8: the list map_action collects is the order-preserving first-occurrence
\* deduplication of the normalized internal links of the successful results,
\* without the entries whose url is empty.
C8_MapDedup ==
    handler = "map" =>
        /\ links = EntriesAt(KeptPositions)
        /\ \A i \in 1..Len(links) : links[i].url # <<>>
        /\ \A i, j \in 1..Len(links) : links[i] = links[j] => i = j

C8_Witness ==
    /\ handler = "map"
    /\ seenLinks = <<DictLink(<<"/", "a">>, <<"A">>), BareLink(<<"/", "a">>),
                     DictLink(<<>>, <<"X">>), DictLink(<<"/", "a">>, <<"A">>)>>
    /\ links = <<[url |-> <<"/", "a">>, title |-> <<"A">>],
                 [url |-> <<"/", "a">>, title |-> <<>>]>>

\* the entry matches the search string: its url or its title contains it,
\* case-insensitively (every entry matches when no search is given)
MatchesSearch(search, entry) ==
    \/ ~search.has
    \/ Contains(Lower(search.s), Lower(entry.url))
    \/ Contains(Lower(search.s), Lower(entry.title))

\* the positions of links whose entry matches the request's search
MatchingPositions ==
    {i \in 1..Len(links) : MatchesSearch(request.params.search, links[i])}

\* the first n positions of P
FirstPositions(P, n) == {i \in P : Cardinality({j \in P : j < i}) < n}

\* the entries of links at the positions P, in increasing position
RECURSIVE LinksAt(_)
LinksAt(P) ==
    IF P = {} THEN <<>>
    ELSE LET m == CHOOSE i \in P : \A j \in P : i <= j
         IN <<links[m]>> \o LinksAt(P \ {m})

\* C9: for limit >= 0 the output of map_action is the first limit entries, in
\* first-seen order, of the deduplicated entries that match the search; it
\* never has more than limit entries and never holds a non-matching entry.
C9_MapFilterThenTruncate ==
    LET limit == GetInt(request.params.limit, 100)
    IN handler = "map" /\ pc \in {"return", "done"} /\ exc = NoExc /\ limit >= 0 =>
        /\ outcome.v = LinksAt(FirstPositions(MatchingPositions, limit))
        /\ Len(outcome.v) <= limit
        /\ \A i \in 1..Len(outcome.v) :
              MatchesSearch(request.params.search, outcome.v[i])
        /\ Terminated =>
              stdout = <<[success |-> TRUE, keys |-> {"success", "data"},
                          data |-> outcome.v, error |-> <<>>]>>

C9_Witness ==
    /\ Terminated
    /\ handler = "map"
    /\ request.params.limit = OptInt(2)
    /\ request.params.search = NoSearch
    /\ seenLinks = <<DictLink(<<"/", "a">>, <<"A">>), DictLink(<<"/", "a">>, <<"A">>),
                     DictLink(<<"/", "b">>, <<"B">>), DictLink(<<"/", "c">>, <<"C">>)>>
    /\ stdout[1].data = <<[url |-> <<"/", "a">>, title |-> <<"A">>],
                          [url |-> <<"/", "b">>, title |-> <<"B">>]>>

\* C10: on an engine result with success = TRUE fetch_action returns the html
\* field for format "html", the raw_html field for format "raw" and the
\* markdown text for every other format value, and never fails.
C10_FetchFormat ==
    LET format == request.params.format
        expected == IF format = JStr("html") THEN result.html
                    ELSE IF format = JStr("raw") THEN result.raw_html
                    ELSE IF result.markdown.kind = "obj"
                         THEN result.markdown.raw_markdown
                         ELSE result.markdown.text
    IN handler = "fetch" /\ result.success =>
        /\ exc = NoExc
        /\ pc \in {"return", "done"}
        /\ outcome = Val(expected)
        /\ Terminated =>
              stdout = <<[success |-> TRUE, keys |-> {"success", "data"},
                          data |-> expected, error |-> <<>>]>>

C10_Witness ==
    /\ Terminated
    /\ handler = "fetch"
    /\ request.params.format = JStr("html")
    /\ result.success
    /\ result.html # result.raw_html
    /\ stdout[1].data = result.html

\* the actions whose handler uses the browser engine
EngineActions == {"fetch", "extract", "screenshot", "crawl", "map"}

\* C11: in every engine action and for every outcome of it (success, engine
\* failure, exception, empty result, early stop of crawl at max_pages) the
\* browser session the handler acquired is released before the envelope is
\* written: a session is held only inside a running engine handler, none is
\* held once the handler has finished, an envelope is on stdout or the
\* process has stopped, and never more than one is held or acquired.
C11_SessionReleased ==
    /\ sessions \in 0..1
    /\ acquired \in 0..1
    /\ sessions <= acquired
    /\ sessions = 1 => handler \in EngineActions /\ ~Finished /\ stdout = <<>>
    /\ Finished => sessions = 0
    /\ stdout # <<>> => sessions = 0
    /\ pc \in {"done", "crashed"} => sessions = 0

\* crawl stopped early at max_pages, with part of the stream unconsumed
C11_Witness ==
    /\ Terminated
    /\ handler = "crawl"
    /\ acquired = 1
    /\ sessions = 0
    /\ exc = NoExc
    /\ pulled < Len(stream)
    /\ stdout[1].success

\* C12: every envelope written has no top-level key besides success, data
\* and error, and never holds data and error together: with success = TRUE
\* the error key is absent, with success = FALSE the data key is absent.
C12_EnvelopeShape ==
    \A i \in 1..Len(stdout) :
        LET e == stdout[i]
        IN /\ "success" \in e.keys
           /\ e.keys \subseteq {"success", "data", "error"}
           /\ ~({"data", "error"} \subseteq e.keys)
           /\ e.success => "error" \notin e.keys /\ e.error = <<>>
           /\ ~e.success => "data" \notin e.keys /\ e.data = <<>>

\* an error envelope written after a handler failed
C12_Witness ==
    /\ Terminated
    /\ handler = "screenshot"
    /\ exc # NoExc
    /\ ~stdout[1].success
    /\ stdout[1].keys = {"success", "error"}

\* C13: whatever failure a handler raises, of any kind and with any message,
\* the dispatcher writes an envelope with success = FALSE whose error field
\* is the message of that failure, unmodified.
C13_FailureMessageReported ==
    Terminated /\ handler # "" /\ exc # NoExc =>
        stdout = <<[success |-> FALSE, keys |-> {"success", "error"},
                    data |-> <<>>, error |-> exc.msg]>>

\* C14: when the engine result supplies both raw and cleaned markdown, the
\* markdown path of fetch_action returns the cleaned one, and crawl_action
\* puts the cleaned one of each result in the markdown of its CrawlPage.
C14_CleanedMarkdown ==
    /\ ( /\ handler = "fetch"
         /\ pc \in {"return", "done"}
         /\ result.success
         /\ request.params.format \notin {JStr("html"), JStr("raw")}
         /\ result.markdown.kind = "obj" )
       => outcome = Val(result.markdown.fit_markdown)
    /\ handler = "crawl" =>
          \A i \in 1..Len(pages) :
              LET r == CrawlResultAt(stream, pages[i].url)
              IN r.markdown.kind = "obj" =>
                    pages[i].markdown = r.markdown.fit_markdown

\* no two entries of the list l have the same url
UrlsDistinct(l) ==
    \A i, j \in 1..Len(l) : l[i].url = l[j].url => i = j

\* C15: within one map invocation the output is deduplicated by url: no two
\* entries of the collected list or of the returned list have the same url,
\* also when the same href is reported with different display texts.
C15_MapUrlsDistinct ==
    handler = "map" =>
        /\ UrlsDistinct(links)
        /\ Terminated /\ stdout[1].success => UrlsDistinct(stdout[1].data)

\* the required parameters the request on stdin names a known action for
\* and leaves out of its params mapping
MissingParams ==
    LET a == stdin.doc.action.s
        p == stdin.doc.params
    IN {k \in {"url", "query", "schema"} :
          /\ \/ k = "url" /\ a \in EngineActions
             \/ k = "query" /\ a = "search"
             \/ k = "schema" /\ a = "extract"
          /\ p[k].t = "absent"}

\* C16: a request that names a known action and whose params mapping lacks a
\* required parameter (url for the engine actions, query for search, schema
\* for extract) ends in an envelope with success = FALSE and an error field,
\* and fails before the handler starts: no session is acquired and no
\* search tier is contacted.
C16_MissingParameter ==
    ( /\ LoadsAccepts(stdin)
      /\ stdin.doc.isObject
      /\ stdin.doc.action.t = "str"
      /\ stdin.doc.action.s \in KnownActions \ {"debug"}
      /\ stdin.doc.params.kind = "dict"
      /\ MissingParams # {} )
    => /\ handler = ""
       /\ NoBackendTouched
       /\ pc \in {"start", "dispatch", "except", "done"}
       /\ Terminated =>
             /\ Len(stdout) = 1
             /\ ~stdout[1].success
             /\ stdout[1].keys = {"success", "error"}
             /\ \E k \in MissingParams : stdout[1].error = <<"'", k, "'">>

\* extract with url given and schema left out
C16_Witness ==
    /\ Terminated
    /\ stdin.doc.action = JStr("extract")
    /\ stdin.doc.params.kind = "dict"
    /\ stdin.doc.params.url = Url
    /\ stdin.doc.params.schema = Absent
    /\ stdout[1].error = <<"'", "schema", "'">>
    /\ acquired = 0

\* C17: in crawl_action, for every integer max_pages >= 0 and every stream,
\* the accumulated list holds at most max_pages pages at every point of the
\* loop, and so does the returned list.
C17_CeilingFromZero ==
    LET N == GetInt(request.params.max_pages, 10)
    IN handler = "crawl" /\ N >= 0 =>
          /\ Len(pages) <= N
          /\ pc \in {"return", "done"} /\ exc = NoExc => Len(outcome.v) <= N

\* the positions of the consumed part of the stream that hold a successful
\* result
ConsumedSuccesses == {i \in 1..pulled : stream[i] \in {"ok", "okstr"}}

\* the list l is the successful results of the consumed part of the stream,
\* in stream order (a result's url is its position in the stream)
IsConsumedSuccesses(l) ==
    /\ Len(l) = Cardinality(ConsumedSuccesses)
    /\ \A k \in 1..Len(l) :
          /\ l[k].url \in ConsumedSuccesses
          /\ l[k].markdown = IF stream[l[k].url] = "ok" THEN "# raw" ELSE "# text"
          /\ k > 1 => l[k - 1].url < l[k].url

\* C18: in crawl_action a result the engine reports as failed is skipped
\* without effect: it adds no page, does not count toward max_pages, does not
\* end the iteration and never makes the response an error; the list built
\* and returned is exactly the successful results of the consumed part of
\* the stream, in stream order.
C18_FailedResultsSkipped ==
    handler = "crawl" =>
        /\ IsConsumedSuccesses(pages)
        /\ exc # NoExc =>
              \/ pulled = 0 /\ stream = <<>>
              \/ pulled >= 1 /\ stream[pulled] = "raise"
        /\ ( /\ Finished
             /\ pulled >= 1
             /\ stream[pulled] = "failed" )
           => exc = NoExc /\ pulled = Len(stream)
        /\ Finished /\ exc = NoExc /\ pulled < Len(stream) =>
              Len(pages) >= GetInt(request.params.max_pages, 10)
        /\ pc \in {"return", "done"} /\ exc = NoExc => outcome = Val(pages)
        /\ Terminated /\ exc = NoExc =>
              stdout = <<[success |-> TRUE, keys |-> {"success", "data"},
                          data |-> pages, error |-> <<>>]>>

\* failed results before, between and after the successful ones
C18_Witness ==
    /\ Terminated
    /\ handler = "crawl"
    /\ request.params.max_pages = OptInt(3)
    /\ stream = <<"failed", "ok", "failed", "okstr">>
    /\ pulled = 4
    /\ stdout[1].data = <<[url |-> 2, markdown |-> "# raw"],
                          [url |-> 4, markdown |-> "# text"]>>

\* C19: when the engine reports success = TRUE but produced nothing:
\* screenshot without an image ends in a failure envelope whose error is
\* "No screenshot captured"; extract without extracted content ends in a
\* success envelope whose data is the empty mapping; crawl without a
\* successful page ends in a success envelope whose data is the empty
\* sequence, the data key being present.
C19_EmptyResultPolicy ==
    /\ ( /\ Terminated
         /\ handler = "screenshot"
         /\ result.success
         /\ result.screenshot \in {NoErr, Err(<<>>)} )
       => stdout = <<[success |-> FALSE, keys |-> {"success", "error"},
                      data |-> <<>>, error |-> <<"No screenshot captured">>]>>
    /\ ( /\ Terminated
         /\ handler = "extract"
         /\ result.success
         /\ result.extracted_content \in {NoErr, Err(<<>>)} )
       => stdout = <<[success |-> TRUE, keys |-> {"success", "data"},
                      data |-> [json |-> <<"{}">>], error |-> <<>>]>>
    /\ ( /\ Terminated
         /\ handler = "crawl"
         /\ exc = NoExc
         /\ \A i \in 1..Len(stream) : stream[i] = "failed" )
       => stdout = <<[success |-> TRUE, keys |-> {"success", "data"},
                      data |-> <<>>, error |-> <<>>]>>

\* a screenshot run whose result holds the empty string as image
C19_Witness ==
    /\ Terminated
    /\ handler = "screenshot"
    /\ result.success
    /\ result.screenshot = Err(<<>>)
    /\ stdout[1].error = <<"No screenshot captured">>

\* the urls only tier 1 reports
Tier1Urls == {"https://a.example", "https://b.example"}

\* C20: a list search_action returns comes from a single tier and is cut to
\* the caller's limit: for every limit >= 0, tier 2 having returned at most
\* limit entries, the returned list has at most limit entries and never
\* holds tier-1 entries together with tier-2 entries, also when tier 1 raised
\* after it had normalized some entries.
C20_SingleTierWithinLimit ==
    LET limit == GetInt(request.params.limit, 10)
        data == outcome.v
        fromTier1 == {i \in 1..Len(data) : data[i].url \in Tier1Urls}
        fromTier2 == {i \in 1..Len(data) : data[i].url \notin Tier1Urls}
    IN ( /\ handler = "search"
         /\ pc \in {"return", "done"}
         /\ exc = NoExc
         /\ limit >= 0
         /\ Cardinality(fromTier2) <= limit )
       => /\ Len(data) <= limit
          /\ fromTier1 = {} \/ fromTier2 = {}

====
